---- MODULE Spec2Model ----
(***************************************************************************)
(* Model of iplantuml's plantuml line/cell magic                           *)
(* (src/iplantuml/__init__.py).  One invocation is a sequence of steps:    *)
(* argument parsing, input resolution, render dispatch, the back end's     *)
(* external process, construction of the SVG result and the two cleanup    *)
(* statements of the finally block.  The file system is the only state     *)
(* that survives an invocation.                                            *)
(***************************************************************************)
EXTENDS Integers, Sequences, FiniteSets, TLC

(* ---------------------------------------------------------------- bounds *)
\* Number of plantuml invocations explored in one behaviour.
MaxCalls == 2

(* ------------------------------------------------------------- optionals *)
\* Python's None and a present value.
None == <<>>
Some(v) == <<v>>
Val(o) == o[1]

(* ----------------------------------------------------------------- paths *)
\* A file path is a directory ("" is the working directory), a stem and an
\* extension: dir/stem.ext.
Dirs == {"", "d"}
NameStems == {"a"}

Path(d, s, e) == [dir |-> d, stem |-> s, ext |-> e]

\* Files present in the file system before the first invocation.
PreExisting == {Path("", "a", "svg"), Path("", "b", "uml"),
                Path("", "b", "svg"), Path("d", "b", "uml")}

\* Files the user can reference with -f: the existing ones and a missing one.
LocalPaths == PreExisting \cup {Path("d", "a", "uml")}

\* The -f values: a bare path, a file-scheme URL, or a network URL.
Locations == {<<p>> : p \in LocalPaths}
             \cup {<<"file", Path("d", "b", "uml")>>}
             \cup {<<"http", Path("", "b", "uml")>>}

\* The -n values: a base name, possibly with a directory part.
BaseNames == [dir : Dirs, stem : NameStems]

\* Jar paths are sequences of components; an absolute path starts with "/".
Cwd == <<"/", "work">>
PLANTUMLPATH == <<"/", "usr", "local", "bin", "plantuml.jar">>
JarPaths == {<<"my.jar">>, <<"/", "opt", "plantuml.jar">>}

CellText == "@startuml A->B @enduml"
RemoteText == "@startuml R->S @enduml"
SvgText == "<svg/>"

\* The argument combinations of one invocation (lines 83-87 and the cell):
\* a cell magic with any flags, or a line magic (no cell) without -f.
ArgSets == {a \in [file : {None} \cup {Some(l) : l \in Locations},
                   jar : {None, Some("y")},
                   name : {None} \cup {Some(b) : b \in BaseNames},
                   ppath : {None} \cup {Some(j) : j \in JarPaths},
                   cell : {None, Some(CellText)}] :
              a.cell = None => a.file = None}

(* ---------------------------------------------------------- file system *)
Exists(f, p) == p \in DOMAIN f
Put(f, p, c) == [q \in (DOMAIN f) \cup {p} |-> IF q = p THEN c ELSE f[q]]
Unlink(f, p) == [q \in (DOMAIN f) \ {p} |-> f[q]]

(* ------------------------------------------------------- pure functions *)
\* urlparse(location): the scheme and the path of the reference.
urlparse(loc) ==
    IF Len(loc) = 1 THEN [scheme |-> "", path |-> loc[1]]
                    ELSE [scheme |-> loc[1], path |-> loc[2]]

\* os.path.abspath on a jar path.
abspath(j) == IF j[1] = "/" THEN j ELSE Cwd \o j

\* str(uuid.uuid4()): the n-th fresh identifier.
uuid4(n) == "u" \o ToString(n)

\* line 89: retain_uml = retain_svg = args.name is not None
Retain(a) == a.name # None

\* line 90: base_name = args.name or str(uuid.uuid4())
BaseName(a, n) == IF a.name # None THEN Val(a.name)
                  ELSE [dir |-> "", stem |-> uuid4(n)]

\* line 91: use_web = not (args.jar or args.plantuml_path)
UseWebJarOnly(a) == ~(a.jar # None)
UseWeb(a) == ~(a.jar # None \/ a.ppath # None)

\* lines 94 and 104: uml_path = base_name + ".uml"
UmlPathOf(b) == Path(b.dir, b.stem, "uml")

\* lines 52 and 69: splitext(basename(f))[0] + ".svg"
SvgPathOf(p) == Path("", p.stem, "svg")

\* line 108: os.path.abspath(args.plantuml_path or PLANTUMLPATH)
JarPathOf(a) == abspath(IF a.ppath # None THEN Val(a.ppath) ELSE PLANTUMLPATH)

\* lines 95-96: open(uml_path, 'w') then fp.write(cell), closed by the with.
WriteUnflushed(f, p, text) == Put(f, p, "")
Write(f, p, text) == Put(f, p, text)

\* line 101: uml_path = url.path
LocalUmlPathRenamed(url, b) == UmlPathOf(b)
LocalUmlPath(url, b) == url.path

\* line 112: if not retain_uml and os.path.exists(uml_path): os.unlink(uml_path)
\* line 113: the same statement for svg_path (once svg_path is bound)
UnlinkSkipped(f, retain, p) == f
UnlinkUnless(f, retain, p) == IF ~retain /\ Exists(f, p) THEN Unlink(f, p) ELSE f

(* ----------------------------------------------------------------- state *)
VARIABLES
    pc,           \* position of the current invocation
    fs,           \* the file system: existing path -> content
    args,         \* parsed arguments and cell of the current invocation
    retain_uml, retain_svg, base_name, use_web,   \* locals, lines 89-91
    uml_path,     \* local uml_path (None while unbound)
    svg_path,     \* local svg_path (None while unbound)
    backendCalls, \* back end invocations of the current invocation
    error,        \* the exception in flight / reaching the caller
    result,       \* the SVG object built at line 110 / returned
    uuids,        \* number of uuid4() values drawn so far
    calls,        \* number of invocations started
    backendError, \* history: what the back end's process call raised
    fs0,          \* history: the file system when the invocation began
    anyNamed,     \* history: some invocation so far was given -n
    log           \* history: the steps the current invocation performed

vars == <<pc, fs, args, retain_uml, retain_svg, base_name, use_web, uml_path,
          svg_path, backendCalls, error, result, uuids, calls, backendError,
          fs0, anyNamed, log>>

NoError == "none"
NoArgs == [file |-> None, jar |-> None, name |-> None, ppath |-> None,
           cell |-> None]

Ended == pc \in {"returned", "raised"}

Init ==
    /\ pc = "idle"
    /\ fs = [p \in PreExisting |-> "pre"]
    /\ args = NoArgs
    /\ retain_uml = FALSE
    /\ retain_svg = FALSE
    /\ base_name = None
    /\ use_web = TRUE
    /\ uml_path = None
    /\ svg_path = None
    /\ backendCalls = <<>>
    /\ error = NoError
    /\ result = None
    /\ uuids = 0
    /\ calls = 0
    /\ backendError = NoError
    /\ fs0 = fs
    /\ anyNamed = FALSE
    /\ log = <<>>

(* --------------------------------------------------------------- actions *)
\* lines 82-91: parse the line, compute the locals.
Invoke(a) ==
    /\ pc = "idle"
    /\ calls < MaxCalls
    /\ calls' = calls + 1
    /\ args' = a
    /\ retain_uml' = Retain(a)
    /\ retain_svg' = Retain(a)
    /\ uuids' = IF a.name = None THEN uuids + 1 ELSE uuids
    /\ base_name' = Some(BaseName(a, uuids'))
    /\ use_web' = UseWeb(a)
    /\ uml_path' = None
    /\ svg_path' = None
    /\ backendCalls' = <<>>
    /\ error' = NoError
    /\ result' = None
    /\ backendError' = NoError
    /\ fs0' = fs
    /\ anyNamed' = (anyNamed \/ a.name # None)
    /\ log' = <<>>
    /\ pc' = "resolve"
    /\ UNCHANGED fs

\* lines 93-96: no -f, the cell is written to <base_name>.uml.  open() creates
\* the file; fp.write(None) raises TypeError when there is no cell.
WriteCell ==
    /\ pc = "resolve"
    /\ args.file = None
    /\ uml_path' = Some(UmlPathOf(Val(base_name)))
    /\ IF args.cell = None
       THEN /\ fs' = Put(fs, Val(uml_path'), "")
            /\ error' = "TypeError"
            /\ pc' = "raised"
            /\ log' = Append(log, "open")
       ELSE /\ fs' = Write(fs, Val(uml_path'), Val(args.cell))
            /\ error' = error
            /\ pc' = "dispatch"
            /\ log' = Append(log, "write")
    /\ UNCHANGED <<args, retain_uml, retain_svg, base_name, use_web, svg_path,
                   backendCalls, result, uuids, calls, backendError, fs0,
                   anyNamed>>

\* lines 98-102: -f with an empty or file scheme, the file is used in place.
UseLocalFile ==
    /\ pc = "resolve"
    /\ args.file # None
    /\ urlparse(Val(args.file)).scheme \in {"", "file"}
    /\ uml_path' = Some(LocalUmlPath(urlparse(Val(args.file)), Val(base_name)))
    /\ retain_uml' = TRUE
    /\ pc' = "dispatch"
    /\ UNCHANGED <<fs, args, retain_svg, base_name, use_web, svg_path,
                   backendCalls, error, result, uuids, calls, backendError,
                   fs0, anyNamed, log>>

\* lines 103-105: -f with another scheme, urlretrieve(location, uml_path).
\* The fetch completes, fails before the target file is opened, or fails
\* after part of the content was written.
Fetch ==
    /\ pc = "resolve"
    /\ args.file # None
    /\ urlparse(Val(args.file)).scheme \notin {"", "file"}
    /\ uml_path' = Some(UmlPathOf(Val(base_name)))
    /\ \E o \in {"ok", "unreachable", "short"} :
         \/ /\ o = "ok"
            /\ fs' = Put(fs, Val(uml_path'), RemoteText)
            /\ error' = error
            /\ pc' = "dispatch"
            /\ log' = Append(log, "fetch")
         \/ /\ o = "unreachable"
            /\ fs' = fs
            /\ error' = "URLError"
            /\ pc' = "raised"
            /\ log' = log
         \/ /\ o = "short"
            /\ fs' = Put(fs, Val(uml_path'), "")
            /\ error' = "ContentTooShortError"
            /\ pc' = "raised"
            /\ log' = Append(log, "open")
    /\ UNCHANGED <<args, retain_uml, retain_svg, base_name, use_web, svg_path,
                   backendCalls, result, uuids, calls, backendError, fs0,
                   anyNamed>>

\* line 108: the conditional expression calls plantuml_web or plantuml_exec;
\* lines 45-50 / 63-67 build the command and start the process.
Dispatch ==
    /\ pc = "dispatch"
    /\ backendCalls' = Append(backendCalls,
         IF use_web
         THEN [backend |-> "plantuml_web", files |-> <<Val(uml_path)>>,
               jar |-> None]
         ELSE [backend |-> "plantuml_exec", files |-> <<Val(uml_path)>>,
               jar |-> Some(JarPathOf(args))])
    /\ log' = Append(log, "start")
    /\ pc' = "running"
    /\ UNCHANGED <<fs, args, retain_uml, retain_svg, base_name, use_web,
                   uml_path, svg_path, error, result, uuids, calls,
                   backendError, fs0, anyNamed>>

\* lines 50-52 / 67-69 and 109: subprocess.check_call returns or raises.
\* The external renderer writes the SVG next to its input or into the
\* working directory; it may have written it before exiting non-zero.
BackendFinish ==
    /\ pc = "running"
    /\ \E o \in {"ok", "nonzero", "nonzero_svg", "noexec"},
          out \in {SvgPathOf(Val(uml_path)),
                   Path(Val(uml_path).dir, Val(uml_path).stem, "svg")} :
         \/ /\ o = "ok"
            /\ Exists(fs, Val(uml_path))
            /\ fs' = Put(fs, out, SvgText)
            /\ svg_path' = Some(SvgPathOf(Val(uml_path)))
            /\ error' = error
            /\ pc' = "build"
         \/ /\ o = "nonzero"
            /\ out = SvgPathOf(Val(uml_path))
            /\ fs' = fs
            /\ svg_path' = svg_path
            /\ error' = "CalledProcessError"
            /\ pc' = "cleanup_uml"
         \/ /\ o = "nonzero_svg"
            /\ Exists(fs, Val(uml_path))
            /\ fs' = Put(fs, out, SvgText)
            /\ svg_path' = svg_path
            /\ error' = "CalledProcessError"
            /\ pc' = "cleanup_uml"
         \/ /\ o = "noexec"
            /\ out = SvgPathOf(Val(uml_path))
            /\ fs' = fs
            /\ svg_path' = svg_path
            /\ error' = "FileNotFoundError"
            /\ pc' = "cleanup_uml"
    /\ backendError' = error'
    /\ log' = Append(log, "finish")
    /\ UNCHANGED <<args, retain_uml, retain_svg, base_name, use_web, uml_path,
                   backendCalls, result, uuids, calls, fs0, anyNamed>>

\* line 110: SVG(filename=svg_path) reads the file.
BuildSVG ==
    /\ pc = "build"
    /\ IF Exists(fs, Val(svg_path))
       THEN /\ result' = Some([svg |-> Val(svg_path),
                               data |-> fs[Val(svg_path)]])
            /\ error' = error
            /\ log' = Append(log, "build")
       ELSE /\ result' = result
            /\ error' = "IOError"
            /\ log' = log
    /\ pc' = "cleanup_uml"
    /\ UNCHANGED <<fs, args, retain_uml, retain_svg, base_name, use_web,
                   uml_path, svg_path, backendCalls, uuids, calls,
                   backendError, fs0, anyNamed>>

\* line 112
CleanupUml ==
    /\ pc = "cleanup_uml"
    /\ fs' = UnlinkUnless(fs, retain_uml, Val(uml_path))
    /\ log' = IF fs' # fs THEN Append(log, "unlink_uml") ELSE log
    /\ pc' = "cleanup_svg"
    /\ UNCHANGED <<args, retain_uml, retain_svg, base_name, use_web, uml_path,
                   svg_path, backendCalls, error, result, uuids, calls,
                   backendError, fs0, anyNamed>>

\* line 113, then the return or the propagation of the exception.  Reading
\* the unbound local svg_path raises UnboundLocalError, which replaces the
\* exception in flight; `not retain_svg and ...` short-circuits before it.
CleanupSvg ==
    /\ pc = "cleanup_svg"
    /\ IF ~retain_svg /\ svg_path = None
       THEN /\ fs' = fs
            /\ error' = "UnboundLocalError"
       ELSE /\ fs' = IF svg_path = None THEN fs
                     ELSE UnlinkUnless(fs, retain_svg, Val(svg_path))
            /\ error' = error
    /\ log' = IF fs' # fs THEN Append(log, "unlink_svg") ELSE log
    /\ result' = IF error' = NoError THEN result ELSE None
    /\ pc' = IF error' = NoError THEN "returned" ELSE "raised"
    /\ UNCHANGED <<args, retain_uml, retain_svg, base_name, use_web, uml_path,
                   svg_path, backendCalls, uuids, calls, backendError, fs0,
                   anyNamed>>

\* The call has returned or raised: its frame is discarded.
Exit ==
    /\ Ended
    /\ pc' = "idle"
    /\ args' = NoArgs
    /\ retain_uml' = FALSE
    /\ retain_svg' = FALSE
    /\ base_name' = None
    /\ use_web' = TRUE
    /\ uml_path' = None
    /\ svg_path' = None
    /\ backendCalls' = <<>>
    /\ error' = NoError
    /\ result' = None
    /\ backendError' = NoError
    /\ fs0' = fs
    /\ log' = <<>>
    /\ UNCHANGED <<fs, uuids, calls, anyNamed>>

Next ==
    \/ \E a \in ArgSets : Invoke(a)
    \/ WriteCell
    \/ UseLocalFile
    \/ Fetch
    \/ Dispatch
    \/ BackendFinish
    \/ BuildSVG
    \/ CleanupUml
    \/ CleanupSvg
    \/ Exit

Spec == Init /\ [][Next]_vars

(* ------------------------------------------------------------ properties *)
Range(q) == {q[i] : i \in 1..Len(q)}

\* Errors raised by input resolution (lines 93-105), before the try block.
ResolveErrors == {"TypeError", "URLError", "ContentTooShortError"}

\* The invocation got as far as line 108.
PastDispatch ==
    \/ pc \in {"running", "build", "cleanup_uml", "cleanup_svg", "returned"}
    \/ pc = "raised" /\ error \notin ResolveErrors

\* The base name the arguments call for: the -n value or the drawn uuid.
ExpectedBase ==
    IF args.name # None THEN Val(args.name)
    ELSE [dir |-> "", stem |-> uuid4(uuids)]

ExpectedUml == Path(ExpectedBase.dir, ExpectedBase.stem, "uml")
ExpectedSvg == Path(ExpectedBase.dir, ExpectedBase.stem, "svg")

IsLocalRef ==
    args.file # None /\ urlparse(Val(args.file)).scheme \in {"", "file"}
IsRemoteRef ==
    args.file # None /\ urlparse(Val(args.file)).scheme \notin {"", "file"}
ReferencedPath == Val(args.file)[Len(Val(args.file))]

\* C1: inline cell text, no -n: once the call has returned or raised after
\* reaching the back end, neither <uuid>.uml nor <uuid>.svg exists, also
\* when the back end wrote the SVG before exiting non-zero.
C1_NoTransientFileLeft ==
    (Ended /\ args.file = None /\ args.name = None /\ Len(backendCalls) = 1)
        => /\ ~Exists(fs, ExpectedUml)
           /\ ~Exists(fs, ExpectedSvg)

\* C2: inline cell text, no -n, back end succeeded: the SVG file exists when
\* the SVG object is built from it, the object holds the rendered data, and
\* after the call returned neither the SVG file nor the .uml file exists.
C2_SvgTransient ==
    (args.file = None /\ args.name = None) =>
        /\ pc = "build" => Exists(fs, ExpectedSvg)
        /\ (pc = "cleanup_uml" /\ backendError = NoError) =>
               /\ result = Some([svg |-> ExpectedSvg, data |-> SvgText])
               /\ Exists(fs, ExpectedSvg)
        /\ pc = "returned" =>
               /\ result # None
               /\ ~Exists(fs, ExpectedSvg)
               /\ ~Exists(fs, ExpectedUml)

C2_Witness ==
    /\ pc = "returned"
    /\ args.file = None
    /\ args.name = None
    /\ result = Some([svg |-> ExpectedSvg, data |-> SvgText])
    /\ "unlink_svg" \in Range(log)

\* C3: a successful invocation with -n <name> leaves both <name>.uml and
\* <name>.svg behind in the working directory, whatever the input source.
C3_NamedFilesPersist ==
    (pc = "returned" /\ args.name # None /\ ExpectedBase.dir = "")
        => /\ Exists(fs, ExpectedUml)
           /\ Exists(fs, ExpectedSvg)

\* C4: a -f file with an empty or file scheme still exists after the call on
\* every exit path; a fetched -f file is removed after the call exactly when
\* no -n was given.
C4_LocalKeptRemoteRemoved ==
    (Ended /\ args.file # None) =>
        /\ (IsLocalRef /\ Exists(fs0, ReferencedPath))
               => Exists(fs, ReferencedPath)
        /\ (IsRemoteRef /\ "fetch" \in Range(log))
               => (Exists(fs, ExpectedUml) <=> args.name # None)

\* C5: an invocation that reaches render dispatch invokes exactly one back
\* end exactly once: plantuml_web iff neither -j nor -p was given, otherwise
\* plantuml_exec with the absolute jar path of the -p value, or the default
\* /usr/local/bin/plantuml.jar when -p is absent.
C5_Dispatch ==
    /\ Len(backendCalls) <= 1
    /\ PastDispatch =>
         /\ Len(backendCalls) = 1
         /\ backendCalls[1].backend \in {"plantuml_web", "plantuml_exec"}
         /\ backendCalls[1].backend = "plantuml_web"
                <=> (args.jar = None /\ args.ppath = None)
         /\ backendCalls[1].backend = "plantuml_exec" =>
                /\ backendCalls[1].jar # None
                /\ Val(backendCalls[1].jar)[1] = "/"
                /\ Val(backendCalls[1].jar) =
                     IF args.ppath = None THEN PLANTUMLPATH
                     ELSE IF Val(args.ppath)[1] = "/" THEN Val(args.ppath)
                     ELSE Cwd \o Val(args.ppath)

C5_Witness ==
    /\ pc = "returned"
    /\ args.jar # None
    /\ args.ppath = None
    /\ backendCalls = <<[backend |-> "plantuml_exec",
                         files |-> <<ExpectedUml>>,
                         jar |-> Some(PLANTUMLPATH)]>>

\* C6: when the back end's process call fails, no SVG is returned, the error
\* reaching the caller is the one that call raised, and the back end was
\* invoked once only.
C6_BackendErrorPropagates ==
    (Ended /\ backendError # NoError)
        => /\ result = None
           /\ pc = "raised"
           /\ error = backendError
           /\ Len(backendCalls) = 1

C8_StateOrder ==
    /\ (pc = "running" /\ args.file = None)
           => /\ Exists(fs, Val(uml_path))
              /\ fs[Val(uml_path)] = Val(args.cell)
    /\ (pc = "running" /\ IsRemoteRef)
           => /\ Exists(fs, Val(uml_path))
              /\ fs[Val(uml_path)] = RemoteText

C8_StepOrder ==
    (DOMAIN fs) \ (DOMAIN fs') # {} =>
        /\ pc \in {"cleanup_uml", "cleanup_svg"}
        /\ "finish" \in Range(log)
        /\ (svg_path # None /\ ~Exists(fs', Val(svg_path))
              /\ error = NoError) => result # None

C8_Order == []C8_StateOrder /\ [][C8_StepOrder]_vars

C8_Witness ==
    /\ pc = "returned"
    /\ log = <<"write", "start", "finish", "build", "unlink_uml",
               "unlink_svg">>

\* C9: when input resolution fails in an invocation without -n, the error
\* propagates, no back end is invoked and no <uuid>.uml file is left.
C9_ResolutionFailureLeavesNothing ==
    (pc = "raised" /\ error \in ResolveErrors /\ args.name = None)
        => /\ backendCalls = <<>>
           /\ ~Exists(fs, ExpectedUml)

\* C10: after any sequence of invocations without -n, every file that
\* existed before the sequence still exists.
C10_PreExistingKept ==
    ((pc = "idle" \/ Ended) /\ ~anyNamed)
        => \A p \in PreExisting : Exists(fs, p)

====
